---------------------------- MODULE Spec2Model ----------------------------
(***************************************************************************)
(* ShopVision AI: the App view state (src/unnamed/part_000), the           *)
(* VideoPlayer handlers and the DetectionOverlay renderer                  *)
(* (src/components/DetectionOverlay.tsx) and the detection client          *)
(* detectProducts (src/services/geminiService.ts).                         *)
(*                                                                         *)
(* JavaScript values are represented as follows.                           *)
(*   - A string is the sequence of its pieces; a piece is a character      *)
(*     ("a", ".", "4") or, for fixed literals of the source, the literal   *)
(*     itself in one piece.  The empty string is << >>.                    *)
(*   - null and undefined are the reserved one-piece sequences below; no   *)
(*     program string is made of those pieces.                             *)
(*   - A number n/10 is kept as the integer n (tenths); bytes are          *)
(*     integers.                                                           *)
(***************************************************************************)
EXTENDS Integers, Sequences, FiniteSets, TLC

VARIABLES
    videoSrc,      \* App state videoSrc: a URL (string)
    detections,    \* App state detections: DetectedProduct[]
    isProcessing,  \* App state isProcessing
    hasUploaded,   \* App state hasUploaded
    error,         \* App state error: string | null
    isPaused,      \* VideoPlayer state isPaused
    paused,        \* the <video> element's paused attribute
    inflight,      \* detectProducts calls awaiting the service: set of [cycle, src]
    requests,      \* number of generateContent requests sent so far
    uploads,       \* number of object URLs created so far
    objectUrls,    \* the browser's object URLs created and not revoked
    lastEvent,     \* history: the handler that ran last, with its input
    detCycle,      \* history: capture cycle whose response filled detections (0: none)
    minFresh       \* history: first cycle id not older than the last play / cycle-starting pause

vars == <<videoSrc, detections, isProcessing, hasUploaded, error, isPaused,
          paused, inflight, requests, uploads, objectUrls, lastEvent,
          detCycle, minFresh>>

----------------------------------------------------------------------------
(* Bounds of the model *)

\* capture cycles (requests to the service) per run
MaxRequests == 2

\* accepted uploads (object URLs created) per run
MaxUploads == 1

\* longest product list handed to the overlay on its own
MaxProducts == 3

----------------------------------------------------------------------------
(* JavaScript values *)

null == <<"<null>">>

undefined == <<"<undefined>">>

\* JS truthiness of a string | null | undefined
Falsy(v) == v = null \/ v = undefined \/ v = << >>

UpperChars == <<"A","B","C","D","E","F","G","H","I","J","K","L","M",
                "N","O","P","Q","R","S","T","U","V","W","X","Y","Z">>

LowerChars == <<"a","b","c","d","e","f","g","h","i","j","k","l","m",
                "n","o","p","q","r","s","t","u","v","w","x","y","z">>

ToLowerChar(c) ==
    IF \E i \in 1..26 : UpperChars[i] = c
    THEN LowerChars[CHOOSE i \in 1..26 : UpperChars[i] = c]
    ELSE c

\* String.prototype.toLowerCase
toLowerCase(s) == [i \in 1..Len(s) |-> ToLowerChar(s[i])]

\* String.prototype.startsWith
startsWith(s, prefix) ==
    /\ Len(s) >= Len(prefix)
    /\ SubSeq(s, 1, Len(prefix)) = prefix

\* s matches /suffix$/
endsWith(s, suffix) ==
    /\ Len(s) >= Len(suffix)
    /\ SubSeq(s, Len(s) - Len(suffix) + 1, Len(s)) = suffix

\* String.prototype.includes, for a one-piece needle
includes(s, piece) == \E i \in 1..Len(s) : s[i] = piece

DigitChars == <<"0","1","2","3","4","5","6","7","8","9">>

\* decimal digits of a natural number (Number.prototype.toString, n >= 0)
RECURSIVE NatToString(_)
NatToString(n) ==
    IF n < 10 THEN <<DigitChars[n + 1]>>
    ELSE NatToString(n \div 10) \o <<DigitChars[(n % 10) + 1]>>

\* the string JavaScript gives the number t/10 (t an integer): "10", "10.5", "-0.5"
TenthsToString(t) ==
    LET a == IF t < 0 THEN 0 - t ELSE t
        sign == IF t < 0 THEN <<"-">> ELSE << >>
        frac == IF a % 10 = 0 THEN << >> ELSE <<".", DigitChars[(a % 10) + 1]>>
    IN sign \o NatToString(a \div 10) \o frac

----------------------------------------------------------------------------
(* src/services/geminiService.ts *)

K_fashion == <<"f","a","s","h","i","o","n">>

K_shoe == <<"s","h","o","e">>

K_electronics == <<"e","l","e","c","t","r","o","n","i","c","s">>

K_default == <<"d","e","f","a","u","l","t">>

K_constructor == <<"c","o","n","s","t","r","u","c","t","o","r">>

K_toString == <<"t","o","S","t","r","i","n","g">>

\* the object literal's own properties
SEARCH_BASE_URLS ==
    (K_fashion :> <<"https://www.amazon.com/s?k=">>) @@
    (K_shoe :> <<"https://www.nike.com/w?q=">>) @@
    (K_electronics :> <<"https://www.bestbuy.com/site/searchpage.jsp?st=">>) @@
    (K_default :> <<"https://www.google.com/search?q=buy+">>)

\* SEARCH_BASE_URLS is an object literal, so its prototype is Object.prototype:
\* the properties it inherits, each given as a template literal prints it
ObjectPrototype ==
    (K_constructor :> <<"function Object() { [native code] }">>) @@
    (K_toString :> <<"function toString() { [native code] }">>)

\* SEARCH_BASE_URLS[key]: own property, else inherited, else undefined
GetProperty(key) ==
    IF key \in DOMAIN SEARCH_BASE_URLS THEN SEARCH_BASE_URLS[key]
    ELSE IF key \in DOMAIN ObjectPrototype THEN ObjectPrototype[key]
    ELSE undefined

\* SEARCH_BASE_URLS[p.category.toLowerCase()] || SEARCH_BASE_URLS["default"]
BaseUrl(category) ==
    LET v == GetProperty(toLowerCase(category))
    IN IF Falsy(v) THEN SEARCH_BASE_URLS[K_default] ELSE v

\* encodeURIComponent on one character: the unreserved characters stay, the
\* reserved ones the model's names use are percent-encoded
EncodeChar(c) ==
    CASE c = " " -> <<"%","2","0">>
      [] c = "&" -> <<"%","2","6">>
      [] c = "+" -> <<"%","2","B">>
      [] c = "/" -> <<"%","2","F">>
      [] c = "?" -> <<"%","3","F">>
      [] c = "=" -> <<"%","3","D">>
      [] OTHER   -> <<c>>

RECURSIVE encodeURIComponent(_)
encodeURIComponent(s) ==
    IF s = << >> THEN << >>
    ELSE EncodeChar(Head(s)) \o encodeURIComponent(Tail(s))

\* p.category.toLowerCase() raises a TypeError when category is missing
MapThrows(p) == p.category = undefined \/ p.category = null

\* the body of result.products.map for one descriptor
MapProduct(p) ==
    [id           |-> p.id,
     name         |-> p.name,
     category     |-> p.category,
     confidence   |-> p.confidence,
     box          |-> [ymin |-> p.box[1], xmin |-> p.box[2],
                       ymax |-> p.box[3], xmax |-> p.box[4]],
     shoppingLink |-> BaseUrl(p.category) \o encodeURIComponent(p.name)]

Resolved(products) == [ok |-> TRUE, products |-> products, message |-> << >>]

Thrown(message) == [ok |-> FALSE, products |-> << >>, message |-> message]

MsgEmptyResponse == <<"The AI model returned an empty response.">>

MsgNullProducts == <<"Cannot read properties of null (reading 'products')">>

MsgNoToLowerCase == <<"Cannot read properties of undefined (reading 'toLowerCase')">>

MsgApiKey == <<"Invalid or missing API Key. Please check your configuration.">>

MsgUnexpected == <<"An unexpected error occurred during product detection.">>

(* What the service does with one request, as detectProducts sees it:         *)
(*   settle   "reject" (generateContent rejects) or "resolve"                 *)
(*   message  error.message of the rejection, or of the SyntaxError          *)
(*            JSON.parse raises on this text                                  *)
(*   text     response.text: "undefined", "empty", "malformed" or "json"      *)
(*   value    the JSON value of the text: "null", "array", "object"           *)
(*   products the products field of that object: "absent", "null", "string",  *)
(*            "object" or "array"                                             *)
(*   items    the elements of the products array                              *)

\* TryBody without the check of result.products before the map
TryBody_noShapeGuard(r) ==
    IF r.settle = "reject" THEN Thrown(r.message)
    ELSE IF r.text \in {"undefined", "empty"} THEN Thrown(MsgEmptyResponse)
    ELSE IF r.text = "malformed" THEN Thrown(r.message)
    ELSE IF r.value = "null" THEN Thrown(MsgNullProducts)
    ELSE IF r.value # "object" \/ r.products # "array"
         THEN Thrown(<<"result.products.map is not a function">>)
    ELSE IF \E i \in 1..Len(r.items) : MapThrows(r.items[i])
         THEN Thrown(MsgNoToLowerCase)
    ELSE Resolved([i \in 1..Len(r.items) |-> MapProduct(r.items[i])])

\* TryBody with JSON.parse failures swallowed into an empty result
TryBody_swallowsParseError(r) ==
    IF r.settle = "reject" THEN Thrown(r.message)
    ELSE IF r.text \in {"undefined", "empty"} THEN Thrown(MsgEmptyResponse)
    ELSE IF r.text = "malformed" THEN Resolved(<< >>)
    ELSE IF r.value = "null" THEN Thrown(MsgNullProducts)
    ELSE IF r.value # "object" \/ r.products # "array" THEN Resolved(<< >>)
    ELSE IF \E i \in 1..Len(r.items) : MapThrows(r.items[i])
         THEN Thrown(MsgNoToLowerCase)
    ELSE Resolved([i \in 1..Len(r.items) |-> MapProduct(r.items[i])])

\* the try block of detectProducts
TryBody(r) ==
    IF r.settle = "reject" THEN Thrown(r.message)
    ELSE IF r.text \in {"undefined", "empty"} THEN Thrown(MsgEmptyResponse)
    ELSE IF r.text = "malformed" THEN Thrown(r.message)
    ELSE IF r.value = "null" THEN Thrown(MsgNullProducts)
    ELSE IF r.value # "object" \/ r.products # "array" THEN Resolved(<< >>)
    ELSE IF \E i \in 1..Len(r.items) : MapThrows(r.items[i])
         THEN Thrown(MsgNoToLowerCase)
    ELSE Resolved([i \in 1..Len(r.items) |-> MapProduct(r.items[i])])

\* the catch block of detectProducts
CatchBlock(message) ==
    IF message # undefined /\ includes(message, "API_KEY") THEN Thrown(MsgApiKey)
    ELSE IF Falsy(message) THEN Thrown(MsgUnexpected)
    ELSE Thrown(message)

detectProducts(r) ==
    LET t == TryBody(r)
    IN IF t.ok THEN t ELSE CatchBlock(t.message)

----------------------------------------------------------------------------
(* src/components/DetectionOverlay.tsx: DetectionOverlay *)

\* `${n / 10}%` for a coordinate n of the 0-1000 scale
Pct(n) == TenthsToString(n) \o <<"%">>

\* RectStyle with the width taken from xmax alone
RectStyle_widthFromXmax(product) ==
    [top    |-> Pct(product.box.ymin),
     left   |-> Pct(product.box.xmin),
     width  |-> Pct(product.box.xmax),
     height |-> Pct(product.box.ymax - product.box.ymin)]

RectStyle(product) ==
    [top    |-> Pct(product.box.ymin),
     left   |-> Pct(product.box.xmin),
     width  |-> Pct(product.box.xmax - product.box.xmin),
     height |-> Pct(product.box.ymax - product.box.ymin)]

\* DetectionOverlay drawing the rectangles of a non-empty list while processing
DetectionOverlay_boxesWhileProcessing(products, processing) ==
    IF Len(products) = 0
    THEN [mode |-> IF processing THEN "loading" ELSE "null", rects |-> << >>]
    ELSE [mode  |-> "boxes",
          rects |-> [i \in 1..Len(products) |-> RectStyle(products[i])]]

\* what the component renders: the loading indicator, nothing, or one
\* rectangle per product
DetectionOverlay(products, processing) ==
    IF processing THEN [mode |-> "loading", rects |-> << >>]
    ELSE IF Len(products) = 0 THEN [mode |-> "null", rects |-> << >>]
    ELSE [mode  |-> "boxes",
          rects |-> [i \in 1..Len(products) |-> RectStyle(products[i])]]

----------------------------------------------------------------------------
(* src/unnamed/part_000: App *)

SAMPLE_VIDEO ==
    <<"https://storage.googleapis.com/gtv-videos-bucket/sample/BigBuckBunny.mp4">>

MAX_FILE_SIZE_MB == 100

BytesPerMB == 1024 * 1024

BlobPrefix == <<"b","l","o","b",":">>

\* the n-th URL URL.createObjectURL returns
BlobUrl(n) == BlobPrefix \o NatToString(n)

VideoMimePrefix == <<"v","i","d","e","o","/">>

VideoExtensions ==
    { <<".","m","p","4">>, <<".","w","e","b","m">>, <<".","o","g","g">>,
      <<".","m","o","v">>, <<".","m","k","v">> }

\* file.type.startsWith('video/')
isVideoMime(file) == startsWith(file.type, VideoMimePrefix)

\* /\.(mp4|webm|ogg|mov|mkv)$/i.test(file.name)
hasVideoExtension(file) ==
    \E ext \in VideoExtensions : endsWith(toLowerCase(file.name), ext)

\* MAX_FILE_SIZE_MB * 1024 * 1024
maxSizeInBytes == MAX_FILE_SIZE_MB * BytesPerMB

\* ToFixed1 with the megabyte taken as 1000 * 1000 bytes
ToFixed1_decimalMB(bytes) ==
    LET t == (bytes * 10 + 500000) \div 1000000
    IN NatToString(t \div 10) \o <<".", DigitChars[(t % 10) + 1]>>

\* (bytes / (1024 * 1024)).toFixed(1): nearest tenth, a tie going up, always
\* printed with one decimal
ToFixed1(bytes) ==
    LET t == (bytes * 10 + BytesPerMB \div 2) \div BytesPerMB
    IN NatToString(t \div 10) \o <<".", DigitChars[(t % 10) + 1]>>

MsgUnsupported(file) ==
    <<"\"">> \o file.name \o
    <<"\" does not appear to be a supported video format. Please use MP4, WebM, or OGG.">>

MsgEmptyFile ==
    <<"The selected file is empty (0 bytes). Please upload a valid video file.">>

MsgTooLarge(file) ==
    <<"File is too large (">> \o ToFixed1(file.size) \o
    <<"MB). Please select a video smaller than ">> \o
    NatToString(MAX_FILE_SIZE_MB) \o <<"MB to ensure smooth analysis.">>

MsgCritical ==
    <<"Encountered a critical error while preparing the video file. The file might be corrupted or in an incompatible format.">>

\* e.target.files?.[0] when the user cancelled the selection
NoFile == [name |-> undefined, type |-> undefined, size |-> 0]

\* ValidationError without the empty-file check
ValidationError_noEmptyCheck(file) ==
    IF ~isVideoMime(file) /\ ~hasVideoExtension(file) THEN MsgUnsupported(file)
    ELSE IF file.size > maxSizeInBytes THEN MsgTooLarge(file)
    ELSE null

\* the validation rejecting a file of exactly the size limit
ValidationError_limitExcluded(file) ==
    IF ~isVideoMime(file) /\ ~hasVideoExtension(file) THEN MsgUnsupported(file)
    ELSE IF file.size = 0 THEN MsgEmptyFile
    ELSE IF file.size >= maxSizeInBytes THEN MsgTooLarge(file)
    ELSE null

\* the validation of handleFileUpload: the message of the first check that
\* fails, null when the file passes all three
ValidationError(file) ==
    IF ~isVideoMime(file) /\ ~hasVideoExtension(file) THEN MsgUnsupported(file)
    ELSE IF file.size = 0 THEN MsgEmptyFile
    ELSE IF file.size > maxSizeInBytes THEN MsgTooLarge(file)
    ELSE null

----------------------------------------------------------------------------
(* src/components/DetectionOverlay.tsx: VideoPlayer *)

MsgInvalidDimensions ==
    <<"Video dimensions are invalid. Ensure the video is loaded properly.">>

MsgCors ==
    <<"Cannot capture frame due to security restrictions (CORS). Please try a local file or a CORS-enabled URL.">>

MsgAnalyzeFailed == <<"Failed to analyze the video frame.">>

MsgLoadError ==
    <<"Error loading video source. Please check the file format or URL.">>

----------------------------------------------------------------------------
(* Inputs: the files the user selects, what the capture finds, what the     *)
(* service answers                                                          *)

N_a_mp4 == <<"a",".","m","p","4">>

N_b_MKV == <<"b",".","M","K","V">>

N_c_webm == <<"c",".","w","e","b","m">>

N_n_txt == <<"n",".","t","x","t">>

N_mp4 == <<"m","p","4">>

T_video_mp4 == <<"v","i","d","e","o","/","m","p","4">>

T_text_plain == <<"t","e","x","t","/","p","l","a","i","n">>

File(name, type, size) == [name |-> name, type |-> type, size |-> size]

Files ==
    { File(N_a_mp4, T_video_mp4, 1),
      File(N_a_mp4, T_video_mp4, 0),
      File(N_a_mp4, T_video_mp4, 105119744),
      File(N_b_MKV, << >>, 104857600),
      File(N_c_webm, << >>, 104857601),
      File(N_mp4, << >>, 1),
      File(N_n_txt, T_video_mp4, 1),
      File(N_n_txt, T_text_plain, 0),
      File(N_n_txt, T_text_plain, 157286400) }

\* what captureFrame finds: no 2d context, zero videoWidth/videoHeight,
\* toDataURL raising a SecurityError, or a frame
Captures == {"noctx", "zero", "cors", "ok"}

Product(id, name, category, box, confidence) ==
    [id |-> id, name |-> name, category |-> category, box |-> box,
     confidence |-> confidence]

P_shoe ==
    Product(<<"p1">>, <<"R","e","d"," ","S","h","o","e">>,
            <<"S","h","o","e">>, <<100, 200, 400, 600>>, 93)

P_tv ==
    Product(<<"p2">>, <<"T","V","&","4","K">>,
            <<"E","L","E","C","T","R","O","N","I","C","S">>,
            <<105, 15, 333, 999>>, 71)

P_dress ==
    Product(<<"p3">>, <<"D","r","e","s","s">>,
            <<"F","a","s","h","i","o","n">>, <<600, 400, 300, 100>>, 55)

P_sofa ==
    Product(<<"p4">>, <<"S","o","f","a">>,
            <<"h","o","m","e"," ","d","e","c","o","r">>,
            <<0, 0, 1000, 1000>>, 88)

P_ctor ==
    Product(<<"p6">>, <<"T","o","y">>, <<"C","o","n","s","t","r","u","c","t","o","r">>,
            <<250, 250, 750, 750>>, 62)

P_nocat ==
    Product(<<"p7">>, <<"C","u","p">>, undefined, <<10, 20, 30, 40>>, 50)

Outcome(settle, message, text, value, products, items) ==
    [settle |-> settle, message |-> message, text |-> text, value |-> value,
     products |-> products, items |-> items]

Reject(message) == Outcome("reject", message, "undefined", "null", "absent", << >>)

Text(text, message) == Outcome("resolve", message, text, "null", "absent", << >>)

Json(value, products, items) == Outcome("resolve", << >>, "json", value, products, items)

MsgQuota == <<"429 RESOURCE_EXHAUSTED">>

MsgKeyInvalid == <<"API key not valid. reason: ", "API_KEY", "_INVALID">>

MsgSyntax == <<"Unexpected token 'H', \"Here are t\"... is not valid JSON">>

\* the service's answer to a valid key used from a referrer it is restricted from
MsgKeyBlocked ==
    <<"Requests from this referrer are blocked. reason: ", "API_KEY", "_HTTP_REFERRER_BLOCKED">>

ServiceOutcomes ==
    { Reject(MsgKeyInvalid), Reject(MsgKeyBlocked), Reject(MsgQuota),
      Reject(undefined),
      Text("empty", << >>), Text("malformed", MsgSyntax),
      Json("null", "absent", << >>),
      Json("object", "absent", << >>), Json("object", "null", << >>),
      Json("object", "string", << >>), Json("object", "array", << >>),
      Json("object", "array", <<P_shoe>>),
      Json("object", "array", <<P_tv, P_dress, P_sofa>>),
      Json("object", "array", <<P_ctor>>),
      Json("object", "array", <<P_shoe, P_nocat>>) }

NoOutcome == Outcome("none", << >>, "undefined", "null", "absent", << >>)

\* ValidationError on each file of Files, evaluated once
ValidationOf == [f \in Files |-> ValidationError(f)]

\* detectProducts on each outcome of ServiceOutcomes, evaluated once
DetectionOf == [r \in ServiceOutcomes |-> detectProducts(r)]

Event(op, file, cap, outcome, cycle) ==
    [op |-> op, file |-> file, cap |-> cap, outcome |-> outcome, cycle |-> cycle]

----------------------------------------------------------------------------
(* The state machine *)

Init ==
    /\ videoSrc = SAMPLE_VIDEO
    /\ detections = << >>
    /\ isProcessing = FALSE
    /\ hasUploaded = FALSE
    /\ error = null
    /\ isPaused = TRUE
    /\ paused = TRUE
    /\ inflight = {}
    /\ requests = 0
    /\ uploads = 0
    /\ objectUrls = {}
    /\ lastEvent = Event("init", NoFile, "none", NoOutcome, 0)
    /\ detCycle = 0
    /\ minFresh = 1

\* handleFileUpload clearing the detections before it validates the file
handleFileUpload_clearsOnReject(file, urlOk) ==
    /\ lastEvent' = Event("upload", file, IF urlOk THEN "none" ELSE "nourl", NoOutcome, 0)
    /\ (file = NoFile \/ ValidationOf[file] # null) => urlOk
    /\ IF file = NoFile
       THEN /\ error' = null
            /\ UNCHANGED <<videoSrc, detections, hasUploaded, paused, uploads,
                           objectUrls, detCycle>>
       ELSE IF ValidationOf[file] # null
       THEN /\ error' = ValidationOf[file]
            /\ detections' = << >>
            /\ detCycle' = 0
            /\ UNCHANGED <<videoSrc, hasUploaded, paused, uploads, objectUrls>>
       ELSE IF ~urlOk
       THEN /\ error' = MsgCritical
            /\ objectUrls' = IF startsWith(videoSrc, BlobPrefix)
                             THEN objectUrls \ {videoSrc} ELSE objectUrls
            /\ UNCHANGED <<videoSrc, detections, hasUploaded, paused, uploads,
                           detCycle>>
       ELSE /\ uploads < MaxUploads
            /\ uploads' = uploads + 1
            /\ videoSrc' = BlobUrl(uploads + 1)
            /\ objectUrls' = (objectUrls \ {videoSrc}) \cup {BlobUrl(uploads + 1)}
            /\ detections' = << >>
            /\ detCycle' = 0
            /\ hasUploaded' = TRUE
            /\ error' = null
            /\ paused' = TRUE
    /\ UNCHANGED <<isProcessing, isPaused, inflight, requests, minFresh>>

\* App: handleFileUpload, with the cleanup effect of videoSrc that runs when
\* the new source is committed.  urlOk: URL.createObjectURL returned a URL
\* (read only when the file passed the validation).
handleFileUpload(file, urlOk) ==
    /\ lastEvent' = Event("upload", file, IF urlOk THEN "none" ELSE "nourl", NoOutcome, 0)
    /\ (file = NoFile \/ ValidationOf[file] # null) => urlOk
    /\ IF file = NoFile
       THEN /\ error' = null
            /\ UNCHANGED <<videoSrc, detections, hasUploaded, paused, uploads,
                           objectUrls, detCycle>>
       ELSE IF ValidationOf[file] # null
       THEN /\ error' = ValidationOf[file]
            /\ UNCHANGED <<videoSrc, detections, hasUploaded, paused, uploads,
                           objectUrls, detCycle>>
       ELSE IF ~urlOk
       THEN /\ error' = MsgCritical
            /\ objectUrls' = IF startsWith(videoSrc, BlobPrefix)
                             THEN objectUrls \ {videoSrc} ELSE objectUrls
            /\ UNCHANGED <<videoSrc, detections, hasUploaded, paused, uploads,
                           detCycle>>
       ELSE /\ uploads < MaxUploads
            /\ uploads' = uploads + 1
            /\ videoSrc' = BlobUrl(uploads + 1)
            /\ objectUrls' = (objectUrls \ {videoSrc}) \cup {BlobUrl(uploads + 1)}
            /\ detections' = << >>
            /\ detCycle' = 0
            /\ hasUploaded' = TRUE
            /\ error' = null
            /\ paused' = TRUE
    /\ UNCHANGED <<isProcessing, isPaused, inflight, requests, minFresh>>

\* clearError resetting the detections with the error
clearError_resetsDetections ==
    /\ ~Falsy(error)
    /\ error' = null
    /\ detections' = << >>
    /\ detCycle' = 0
    /\ lastEvent' = Event("dismiss", NoFile, "none", NoOutcome, 0)
    /\ UNCHANGED <<videoSrc, isProcessing, hasUploaded, isPaused, paused,
                   inflight, requests, uploads, objectUrls, minFresh>>

\* App: clearError, the button of the error banner (rendered while error is truthy)
clearError ==
    /\ ~Falsy(error)
    /\ error' = null
    /\ lastEvent' = Event("dismiss", NoFile, "none", NoOutcome, 0)
    /\ UNCHANGED <<videoSrc, detections, isProcessing, hasUploaded, isPaused,
                   paused, inflight, requests, uploads, objectUrls, detCycle,
                   minFresh>>

\* handlePlay without onDetections([])
handlePlay_keepsDetections ==
    /\ paused
    /\ paused' = FALSE
    /\ isPaused' = FALSE
    /\ error' = null
    /\ minFresh' = requests + 1
    /\ lastEvent' = Event("play", NoFile, "none", NoOutcome, 0)
    /\ UNCHANGED <<videoSrc, detections, detCycle, isProcessing, hasUploaded,
                   inflight, requests, uploads, objectUrls>>

\* VideoPlayer: handlePlay, on the element's play event
handlePlay ==
    /\ paused
    /\ paused' = FALSE
    /\ isPaused' = FALSE
    /\ error' = null
    /\ detections' = << >>
    /\ detCycle' = 0
    /\ minFresh' = requests + 1
    /\ lastEvent' = Event("play", NoFile, "none", NoOutcome, 0)
    /\ UNCHANGED <<videoSrc, isProcessing, hasUploaded, inflight, requests,
                   uploads, objectUrls>>

\* captureFrame without onDetections([]) at the start of a cycle
captureFrame_keepsDetections(cap) ==
    CASE cap = "noctx" ->
           UNCHANGED <<error, isProcessing, detections, detCycle, inflight,
                       requests, minFresh>>
      [] cap = "zero" ->
           /\ error' = MsgInvalidDimensions
           /\ UNCHANGED <<isProcessing, detections, detCycle, inflight,
                          requests, minFresh>>
      [] cap = "cors" ->
           /\ error' = MsgCors
           /\ isProcessing' = FALSE
           /\ minFresh' = requests + 1
           /\ UNCHANGED <<detections, detCycle, inflight, requests>>
      [] cap = "ok" ->
           /\ requests < MaxRequests
           /\ error' = null
           /\ isProcessing' = TRUE
           /\ requests' = requests + 1
           /\ inflight' = inflight \cup {[cycle |-> requests + 1, src |-> videoSrc]}
           /\ minFresh' = requests + 1
           /\ UNCHANGED <<detections, detCycle>>

\* captureFrame sending the frame before the dimension check
captureFrame_sendsBeforeCheck(cap) ==
    CASE cap = "noctx" ->
           UNCHANGED <<error, isProcessing, detections, detCycle, inflight,
                       requests, minFresh>>
      [] cap = "zero" ->
           /\ requests < MaxRequests
           /\ error' = MsgInvalidDimensions
           /\ requests' = requests + 1
           /\ inflight' = inflight \cup {[cycle |-> requests + 1, src |-> videoSrc]}
           /\ UNCHANGED <<isProcessing, detections, detCycle, minFresh>>
      [] cap = "cors" ->
           /\ error' = MsgCors
           /\ isProcessing' = FALSE
           /\ detections' = << >>
           /\ detCycle' = 0
           /\ minFresh' = requests + 1
           /\ UNCHANGED <<inflight, requests>>
      [] cap = "ok" ->
           /\ requests < MaxRequests
           /\ error' = null
           /\ isProcessing' = TRUE
           /\ detections' = << >>
           /\ detCycle' = 0
           /\ requests' = requests + 1
           /\ inflight' = inflight \cup {[cycle |-> requests + 1, src |-> videoSrc]}
           /\ minFresh' = requests + 1

\* captureFrame resetting the processing flag and the detections before the
\* dimension check
captureFrame_resetsBeforeCheck(cap) ==
    CASE cap = "noctx" ->
           UNCHANGED <<error, isProcessing, detections, detCycle, inflight,
                       requests, minFresh>>
      [] cap = "zero" ->
           /\ error' = MsgInvalidDimensions
           /\ isProcessing' = TRUE
           /\ detections' = << >>
           /\ detCycle' = 0
           /\ UNCHANGED <<inflight, requests, minFresh>>
      [] cap = "cors" ->
           /\ error' = MsgCors
           /\ isProcessing' = FALSE
           /\ detections' = << >>
           /\ detCycle' = 0
           /\ minFresh' = requests + 1
           /\ UNCHANGED <<inflight, requests>>
      [] cap = "ok" ->
           /\ requests < MaxRequests
           /\ error' = null
           /\ isProcessing' = TRUE
           /\ detections' = << >>
           /\ detCycle' = 0
           /\ requests' = requests + 1
           /\ inflight' = inflight \cup {[cycle |-> requests + 1, src |-> videoSrc]}
           /\ minFresh' = requests + 1

\* VideoPlayer: captureFrame up to its await (or to its end when it does not
\* reach the await), as run by handlePause
captureFrame(cap) ==
    CASE cap = "noctx" ->
           UNCHANGED <<error, isProcessing, detections, detCycle, inflight,
                       requests, minFresh>>
      [] cap = "zero" ->
           /\ error' = MsgInvalidDimensions
           /\ UNCHANGED <<isProcessing, detections, detCycle, inflight,
                          requests, minFresh>>
      [] cap = "cors" ->
           /\ error' = MsgCors
           /\ isProcessing' = FALSE
           /\ detections' = << >>
           /\ detCycle' = 0
           /\ minFresh' = requests + 1
           /\ UNCHANGED <<inflight, requests>>
      [] cap = "ok" ->
           /\ requests < MaxRequests
           /\ error' = null
           /\ isProcessing' = TRUE
           /\ detections' = << >>
           /\ detCycle' = 0
           /\ requests' = requests + 1
           /\ inflight' = inflight \cup {[cycle |-> requests + 1, src |-> videoSrc]}
           /\ minFresh' = requests + 1

\* VideoPlayer: handlePause, on the element's pause event
handlePause(cap) ==
    /\ ~paused
    /\ paused' = TRUE
    /\ isPaused' = TRUE
    /\ captureFrame(cap)
    /\ lastEvent' = Event("pause", NoFile, cap, NoOutcome,
                          IF cap = "ok" THEN requests + 1 ELSE 0)
    /\ UNCHANGED <<videoSrc, hasUploaded, uploads, objectUrls>>

\* captureFrame's continuation applying only the response of the latest cycle
captureFrameResume_latestOnly(c, r) ==
    /\ c \in inflight
    /\ inflight' = inflight \ {c}
    /\ LET results == DetectionOf[r]
       IN IF results.ok
          THEN IF c.cycle = requests
               THEN /\ detections' = results.products
                    /\ detCycle' = c.cycle
                    /\ UNCHANGED error
               ELSE UNCHANGED <<detections, detCycle, error>>
          ELSE /\ error' = IF Falsy(results.message) THEN MsgAnalyzeFailed
                           ELSE results.message
               /\ UNCHANGED <<detections, detCycle>>
    /\ isProcessing' = FALSE
    /\ lastEvent' = Event("response", NoFile, "none", r, c.cycle)
    /\ UNCHANGED <<videoSrc, hasUploaded, isPaused, paused, requests, uploads,
                   objectUrls, minFresh>>

\* VideoPlayer: captureFrame from its await on, when the service has settled
\* the request of cycle c with outcome r
captureFrameResume(c, r) ==
    /\ c \in inflight
    /\ inflight' = inflight \ {c}
    /\ LET results == DetectionOf[r]
       IN IF results.ok
          THEN /\ detections' = results.products
               /\ detCycle' = c.cycle
               /\ UNCHANGED error
          ELSE /\ error' = IF Falsy(results.message) THEN MsgAnalyzeFailed
                           ELSE results.message
               /\ UNCHANGED <<detections, detCycle>>
    /\ isProcessing' = FALSE
    /\ lastEvent' = Event("response", NoFile, "none", r, c.cycle)
    /\ UNCHANGED <<videoSrc, hasUploaded, isPaused, paused, requests, uploads,
                   objectUrls, minFresh>>

\* VideoPlayer: the element's error event
handleVideoError ==
    /\ error' = MsgLoadError
    /\ lastEvent' = Event("videoerror", NoFile, "none", NoOutcome, 0)
    /\ UNCHANGED <<videoSrc, detections, isProcessing, hasUploaded, isPaused,
                   paused, inflight, requests, uploads, objectUrls, detCycle,
                   minFresh>>

Upload ==
    \E file \in Files \cup {NoFile}, urlOk \in BOOLEAN : handleFileUpload(file, urlOk)

Dismiss == clearError

Play == handlePlay

Pause == \E cap \in Captures : handlePause(cap)

Response == \E c \in inflight, r \in ServiceOutcomes : captureFrameResume(c, r)

VideoError == handleVideoError

Next == Upload \/ Dismiss \/ Play \/ Pause \/ Response \/ VideoError

Spec == Init /\ [][Next]_vars

----------------------------------------------------------------------------
(* The DetectionOverlay component on its own: App renders it with the       *)
(* detections and the processing flag it holds, whatever its children set   *)
(* them to.                                                                 *)

\* DetectedProduct values
DetectedProducts == {MapProduct(p) : p \in {P_shoe, P_tv, P_dress, P_sofa, P_ctor}}

\* the product lists of the props
ProductLists == UNION {[1..n -> DetectedProducts] : n \in 0..MaxProducts}

\* App: setDetections, re-rendering the overlay with a new products prop
setDetections(products) ==
    /\ detections' = products
    /\ UNCHANGED <<videoSrc, isProcessing, hasUploaded, error, isPaused, paused,
                   inflight, requests, uploads, objectUrls, lastEvent, detCycle,
                   minFresh>>

\* App: setIsProcessing, re-rendering the overlay with a new isProcessing prop
setIsProcessing(processing) ==
    /\ isProcessing' = processing
    /\ UNCHANGED <<videoSrc, detections, hasUploaded, error, isPaused, paused,
                   inflight, requests, uploads, objectUrls, lastEvent, detCycle,
                   minFresh>>

RenderProducts == \E products \in ProductLists : setDetections(products)

RenderProcessing == \E processing \in BOOLEAN : setIsProcessing(processing)

OverlayNext == RenderProducts \/ RenderProcessing

OverlaySpec == Init /\ [][OverlayNext]_vars

----------------------------------------------------------------------------
(* Vocabulary of the properties *)

\* the handler that ran last
AfterPlay == lastEvent.op = "play"

AfterUpload == lastEvent.op = "upload" /\ lastEvent.file # NoFile

AfterResponse == lastEvent.op = "response"

\* the pause event started a capture cycle (it got past the dimension check)
AfterCycleStart == lastEvent.op = "pause" /\ lastEvent.cap \in {"ok", "cors"}

\* the detectProducts call of the last response returned (its result reached
\* onDetections); otherwise it raised
CallReturned == detCycle = lastEvent.cycle

\* what the overlay shows in this state
Overlay == DetectionOverlay(detections, isProcessing)

IsDigit(c) == \E i \in 1..10 : DigitChars[i] = c

DigitVal(c) == (CHOOSE i \in 1..10 : DigitChars[i] = c) - 1

RECURSIVE ParseNat(_)
ParseNat(s) ==
    IF s = << >> THEN 0
    ELSE ParseNat(SubSeq(s, 1, Len(s) - 1)) * 10 + DigitVal(s[Len(s)])

AllDigits(s) == Len(s) >= 1 /\ \A i \in 1..Len(s) : IsDigit(s[i])

\* s is a decimal numeral with at most one decimal: "10", "10.5", "-0.5"
IsDecimal(s) ==
    LET u == IF Len(s) >= 1 /\ s[1] = "-" THEN Tail(s) ELSE s
    IN \/ AllDigits(u)
       \/ /\ Len(u) >= 3
          /\ u[Len(u) - 1] = "."
          /\ IsDigit(u[Len(u)])
          /\ AllDigits(SubSeq(u, 1, Len(u) - 2))

\* the value of such a numeral, in tenths
DecimalTenths(s) ==
    LET neg == Len(s) >= 1 /\ s[1] = "-"
        u == IF neg THEN Tail(s) ELSE s
        a == IF Len(u) >= 3 /\ u[Len(u) - 1] = "."
             THEN ParseNat(SubSeq(u, 1, Len(u) - 2)) * 10 + DigitVal(u[Len(u)])
             ELSE ParseNat(u) * 10
    IN IF neg THEN 0 - a ELSE a

\* the CSS percentage s is exactly n/10 %
IsPercent(s, n) ==
    /\ Len(s) >= 2
    /\ s[Len(s)] = "%"
    /\ IsDecimal(SubSeq(s, 1, Len(s) - 1))
    /\ DecimalTenths(SubSeq(s, 1, Len(s) - 1)) = n

\* the response is a JSON object whose products array has a category in
\* every descriptor
WellFormed(r) ==
    /\ r.settle = "resolve" /\ r.text = "json" /\ r.value = "object"
    /\ r.products = "array"
    /\ \A i \in 1..Len(r.items) : r.items[i].category # undefined

----------------------------------------------------------------------------
(* C1: immediately after a play event is handled, whatever was displayed    *)
(* or in flight before it, the detections list is empty and the error is    *)
(* null.                                                                    *)
C1_PlayClears == AfterPlay => detections = << >> /\ error = null

\* a play event handled while a detection round-trip is in flight
C1_Witness ==
    /\ AfterPlay /\ inflight # {} /\ isProcessing
    /\ detections = << >> /\ error = null

(* C2: for every product of a response, the rectangle the overlay renders   *)
(* for it has top = ymin/10 %, left = xmin/10 %, width = (xmax - xmin)/10 % *)
(* and height = (ymax - ymin)/10 %, where [ymin, xmin, ymax, xmax] is the   *)
(* box the service sent; the box [100, 200, 400, 600] gives 10%, 20%, 40%,  *)
(* 30%.                                                                     *)
C2_RectGeometry ==
    (AfterResponse /\ WellFormed(lastEvent.outcome)) =>
        LET items == lastEvent.outcome.items
            rects == Overlay.rects
        IN /\ Len(rects) = Len(items)
           /\ \A i \in 1..Len(items) :
                 LET b == items[i].box
                 IN /\ IsPercent(rects[i].top, b[1])
                    /\ IsPercent(rects[i].left, b[2])
                    /\ IsPercent(rects[i].width, b[4] - b[2])
                    /\ IsPercent(rects[i].height, b[3] - b[1])
                    /\ b = <<100, 200, 400, 600>> =>
                          rects[i] = [top    |-> <<"1","0","%">>,
                                      left   |-> <<"2","0","%">>,
                                      width  |-> <<"4","0","%">>,
                                      height |-> <<"3","0","%">>]

\* the box [100, 200, 400, 600] rendered, and a response with fractional
\* percentages rendered
C2_Witness ==
    /\ AfterResponse /\ WellFormed(lastEvent.outcome)
    /\ Len(lastEvent.outcome.items) = 1
    /\ lastEvent.outcome.items[1].box = <<100, 200, 400, 600>>
    /\ Overlay.mode = "boxes"
    /\ Overlay.rects[1].width = <<"4","0","%">>

(* C3: a response that is a JSON object whose products field is missing,    *)
(* null, not an array or an empty array makes detectProducts return (not    *)
(* raise) an empty list: right after it the detections are empty, the       *)
(* processing flag is off and the overlay renders no rectangle.             *)
C3_NoProductsNoOverlay ==
    (/\ AfterResponse
     /\ lastEvent.outcome.settle = "resolve"
     /\ lastEvent.outcome.text = "json"
     /\ lastEvent.outcome.value = "object"
     /\ \/ lastEvent.outcome.products # "array"
        \/ lastEvent.outcome.items = << >>)
    => /\ CallReturned
       /\ detections = << >>
       /\ ~isProcessing
       /\ Overlay.mode = "null"
       /\ Overlay.rects = << >>

\* a response without a products field, applied while an error of an earlier
\* event is still shown
C3_Witness ==
    /\ AfterResponse
    /\ lastEvent.outcome.text = "json" /\ lastEvent.outcome.value = "object"
    /\ lastEvent.outcome.products = "absent"
    /\ CallReturned /\ detections = << >> /\ ~isProcessing

\* the file of the upload event that leads to the next state
UploadOf(f) == lastEvent'.op = "upload" /\ lastEvent'.file = f

\* the type check of the upload: a video MIME type or a video extension
PassesTypeCheck(f) == isVideoMime(f) \/ hasVideoExtension(f)

\* msg holds a numeral with one decimal that is bytes / 2^20 to the nearest
\* tenth
HasSizeInMB(msg, bytes) ==
    \E i \in 1..Len(msg), j \in 1..Len(msg) :
        /\ i + 2 <= j
        /\ LET d == SubSeq(msg, i, j)
           IN /\ d[Len(d) - 1] = "."
              /\ d[1] # "-"
              /\ IsDecimal(d)
              /\ bytes * 10 - DecimalTenths(d) * BytesPerMB >= 0 - (BytesPerMB \div 2)
              /\ bytes * 10 - DecimalTenths(d) * BytesPerMB < BytesPerMB \div 2

(* C4, as claimed: every selected file of size 0 is rejected with the       *)
(* empty-file message, whatever its name and MIME type, and the video       *)
(* source is not changed.                                                   *)
C4_Original ==
    [][\A f \in Files :
          (UploadOf(f) /\ f.size = 0) =>
              (error' = MsgEmptyFile /\ videoSrc' = videoSrc)]_vars

(* C4, amended: every selected file of size 0 is rejected and the video     *)
(* source is not changed; the error is the empty-file message when the file *)
(* has a video MIME type or a video extension, and the unsupported-format   *)
(* message (the type check runs first) when it has neither.                 *)
C4_EmptyRejected ==
    [][\A f \in Files :
          (UploadOf(f) /\ f.size = 0) =>
              /\ videoSrc' = videoSrc
              /\ hasUploaded' = hasUploaded
              /\ error' = IF PassesTypeCheck(f) THEN MsgEmptyFile
                          ELSE MsgUnsupported(f)]_vars

\* an empty file with a video type was selected and rejected
C4_Witness ==
    /\ AfterUpload /\ lastEvent.file.size = 0 /\ PassesTypeCheck(lastEvent.file)
    /\ error = MsgEmptyFile /\ videoSrc = SAMPLE_VIDEO

(* C5, as claimed: every selected file larger than 100 MB is rejected with  *)
(* a message that contains its size in MB, and the video source is not      *)
(* changed.                                                                 *)
C5_Original ==
    [][\A f \in Files :
          (UploadOf(f) /\ f.size > MAX_FILE_SIZE_MB * 1024 * 1024) =>
              (HasSizeInMB(error', f.size) /\ videoSrc' = videoSrc)]_vars

(* C5, amended: every selected file larger than 100 MB is rejected and the  *)
(* video source is not changed; when the file has a video MIME type or a    *)
(* video extension the message contains its size in MB to one decimal, and  *)
(* when it has neither the message is the unsupported-format one, which     *)
(* holds no size.                                                           *)
C5_OversizedRejected ==
    [][\A f \in Files :
          (UploadOf(f) /\ f.size > MAX_FILE_SIZE_MB * 1024 * 1024) =>
              /\ videoSrc' = videoSrc
              /\ hasUploaded' = hasUploaded
              /\ IF PassesTypeCheck(f)
                 THEN /\ HasSizeInMB(error', f.size)
                      /\ error'[1] = "File is too large ("
                 ELSE error' = MsgUnsupported(f)]_vars

\* a video of 100.25 MB was selected and rejected with "100.3" in the message
C5_Witness ==
    /\ AfterUpload /\ lastEvent.file.size = 105119744
    /\ HasSizeInMB(error, 105119744)
    /\ SubSeq(error, 2, 6) = <<"1","0","0",".","3">>

\* two strings are equal up to the case of their letters
SameIgnoringCase(a, b) ==
    /\ Len(a) = Len(b)
    /\ \A i \in 1..Len(a) : ToLowerChar(a[i]) = ToLowerChar(b[i])

\* the base URL the table gives a category: its entry, else the default
TableUrl(category) ==
    IF SameIgnoringCase(category, K_fashion) THEN <<"https://www.amazon.com/s?k=">>
    ELSE IF SameIgnoringCase(category, K_shoe) THEN <<"https://www.nike.com/w?q=">>
    ELSE IF SameIgnoringCase(category, K_electronics)
         THEN <<"https://www.bestbuy.com/site/searchpage.jsp?st=">>
    ELSE <<"https://www.google.com/search?q=buy+">>

(* C6: the shopping link of every product of a response starts with the     *)
(* table's URL for its category, matched whatever the case of its letters,  *)
(* and with the default search URL for every category that is not fashion,  *)
(* shoe or electronics.                                                     *)
C6_CategoryLookup ==
    (AfterResponse /\ WellFormed(lastEvent.outcome)) =>
        /\ CallReturned
        /\ Len(detections) = Len(lastEvent.outcome.items)
        /\ \A i \in 1..Len(detections) :
              startsWith(detections[i].shoppingLink,
                         TableUrl(lastEvent.outcome.items[i].category))

\* the response holds malformed or missing data: unparseable text, a JSON
\* value of the wrong shape, or no products list
Malformed(r) ==
    \/ r.text = "malformed"
    \/ r.text = "json" /\ (r.value # "object" \/ r.products # "array")

(* C7, as claimed: a response with malformed or missing data is treated as  *)
(* zero detections and the call does not fail; only an entirely empty raw   *)
(* response makes it fail.                                                  *)
C7_Original ==
    (AfterResponse /\ lastEvent.outcome.settle = "resolve") =>
        IF lastEvent.outcome.text \in {"undefined", "empty"}
        THEN ~CallReturned
        ELSE Malformed(lastEvent.outcome) => (CallReturned /\ detections = << >>)

(* C7, amended: a response whose text parses to a JSON value other than     *)
(* null and whose products field is missing, falsy or not an array is       *)
(* treated as zero detections and the call does not fail; an entirely empty *)
(* raw response, a text that does not parse and the JSON value null each    *)
(* make the call fail with a non-empty error message.                       *)
C7_MalformedHandling ==
    (AfterResponse /\ lastEvent.outcome.settle = "resolve") =>
        LET r == lastEvent.outcome
        IN /\ (r.text = "json" /\ r.value # "null"
                 /\ (r.value # "object" \/ r.products # "array"))
              => (CallReturned /\ detections = << >>)
           /\ r.text \in {"undefined", "empty"}
              => (~CallReturned /\ error = MsgEmptyResponse)
           /\ r.text = "malformed"
              => (~CallReturned /\ error = r.message /\ ~Falsy(error))
           /\ (r.text = "json" /\ r.value = "null")
              => (~CallReturned /\ error = MsgNullProducts)

\* a text that does not parse was answered and surfaced as the error
C7_Witness ==
    /\ AfterResponse /\ lastEvent.outcome.text = "malformed"
    /\ ~CallReturned /\ error = lastEvent.outcome.message /\ ~isProcessing

(* C8: mapping the products array never raises, whatever the descriptors,   *)
(* and a descriptor without category gets a shopping link that starts with  *)
(* the default search URL.                                                  *)
C8_MappingTotal ==
    (/\ AfterResponse
     /\ lastEvent.outcome.settle = "resolve" /\ lastEvent.outcome.text = "json"
     /\ lastEvent.outcome.value = "object" /\ lastEvent.outcome.products = "array")
    => /\ CallReturned
       /\ Len(detections) = Len(lastEvent.outcome.items)
       /\ \A i \in 1..Len(detections) :
             lastEvent.outcome.items[i].category = undefined =>
                 startsWith(detections[i].shoppingLink,
                            <<"https://www.google.com/search?q=buy+">>)

(* C9, as claimed: the detections displayed never come from a capture cycle *)
(* that started before the most recent play event or before the most recent *)
(* pause event that started a cycle.                                        *)
C9_Original == Len(detections) > 0 => detCycle >= minFresh

(* C9, amended: detections are discarded when a pause starts a capture      *)
(* cycle and when playback resumes: immediately after either event the      *)
(* detections list is empty and the overlay shows no rectangle.  (The       *)
(* response of a cycle started before that event is not discarded: it is    *)
(* displayed when it arrives.)                                              *)
C9_DiscardedAtCycleStartAndPlay ==
    (AfterPlay \/ AfterCycleStart) =>
        (detections = << >> /\ detCycle = 0 /\ Overlay.rects = << >>)

\* a second cycle started while the first one is still in flight
C9_Witness ==
    /\ AfterCycleStart /\ lastEvent.cap = "ok"
    /\ Cardinality(inflight) = 2
    /\ detections = << >>

(* C10: a step sends a request to the detection service exactly when it is  *)
(* a pause event whose frame capture succeeds, and then it sends exactly    *)
(* one; a pause whose capture fails, a play, an upload, a dismiss and a     *)
(* response send none.                                                      *)
C10_OneRequestPerCycle ==
    [][IF lastEvent'.op = "pause" /\ lastEvent'.cap = "ok"
       THEN /\ requests' = requests + 1
            /\ \E c \in inflight' : c \notin inflight /\ inflight' = inflight \cup {c}
       ELSE /\ requests' = requests
            /\ inflight' \subseteq inflight]_vars

\* two capture cycles ran, each with its one request
C10_Witness ==
    /\ lastEvent.op = "pause" /\ lastEvent.cap = "ok"
    /\ requests = 2 /\ lastEvent.cycle = 2

(* C11: every error can be dismissed and none ends the session: in every    *)
(* state with a non-null error the dismiss button is there, dismissing sets *)
(* the error to null and leaves the video source, the detections and the    *)
(* processing flag as they were, and whatever the error, a play event (when *)
(* the element is paused), a pause event with its capture (when it plays)   *)
(* and the upload of a valid file are still handled.                        *)
C11_ErrorsDismissible ==
    /\ [](error # null => ENABLED clearError)
    /\ [](/\ paused => ENABLED handlePlay
          /\ ~paused => ENABLED handlePause("zero")
          /\ (~paused /\ requests < MaxRequests) => ENABLED handlePause("ok")
          /\ ENABLED handleFileUpload(NoFile, TRUE)
          /\ uploads < MaxUploads =>
                ENABLED handleFileUpload(File(N_a_mp4, T_video_mp4, 1), TRUE))
    /\ [][lastEvent'.op = "dismiss" =>
             /\ error # null
             /\ error' = null
             /\ UNCHANGED <<videoSrc, detections, isProcessing, hasUploaded>>]_vars

\* an error dismissed while detections are displayed
C11_Witness ==
    /\ lastEvent.op = "dismiss" /\ error = null
    /\ Len(detections) > 0

\* the request failed because the service found the API key invalid
AuthFailure(r) == r.settle = "reject" /\ r.message = MsgKeyInvalid

\* error.message of what the try block of detectProducts raised on r
RaisedMessage(r) ==
    IF r.settle = "reject" \/ r.text = "malformed" THEN r.message
    ELSE IF r.text \in {"undefined", "empty"}
         THEN <<"The AI model returned an empty response.">>
    ELSE IF r.value = "null"
         THEN <<"Cannot read properties of null (reading 'products')">>
    ELSE <<"Cannot read properties of undefined (reading 'toLowerCase')">>

\* the message with its generic replacement when there is none
OrGeneric(m) ==
    IF m = undefined \/ m = null \/ m = << >>
    THEN <<"An unexpected error occurred during product detection.">>
    ELSE m

(* C12: a request that fails because the API key is invalid is rejected     *)
(* with the API-key message, every other failure with its original message  *)
(* or, when it has none, with the generic message, and never with an empty  *)
(* one.                                                                     *)
C12_FailureMessages ==
    (AfterResponse /\ ~CallReturned) =>
        /\ error = IF AuthFailure(lastEvent.outcome)
                   THEN <<"Invalid or missing API Key. Please check your configuration.">>
                   ELSE OrGeneric(RaisedMessage(lastEvent.outcome))
        /\ error # << >> /\ error # MsgAnalyzeFailed

\* the round-trips issued so far that have been answered
Answered == {n \in 1..requests : \A c \in inflight : c.cycle # n}

(* C13: a round-trip in flight is not cancelled by any later event: only    *)
(* its own response ends it, and a pause that starts a new round-trip       *)
(* leaves the earlier ones in flight.  Responses are applied in whatever    *)
(* order they arrive: each round-trip in flight can be answered next, and a *)
(* successful answer replaces the displayed detections by its own, also     *)
(* when a later-issued round-trip has already been answered.                *)
C13_OverlappingRoundTrips ==
    /\ [][/\ lastEvent'.op # "response" => inflight \subseteq inflight'
          /\ lastEvent'.op = "response" =>
                \E c \in inflight : /\ c.cycle = lastEvent'.cycle
                                    /\ inflight' = inflight \ {c}
          /\ (lastEvent'.op = "pause" /\ lastEvent'.cap = "ok") =>
                inflight' = inflight \cup
                              {[cycle |-> requests + 1, src |-> videoSrc]}]_vars
    /\ [](\A c \in inflight :
             ENABLED captureFrameResume(c, Json("object", "array", <<P_shoe>>)))
    /\ [][(lastEvent'.op = "response" /\ DetectionOf[lastEvent'.outcome].ok) =>
             /\ detections' = DetectionOf[lastEvent'.outcome].products
             /\ detCycle' = lastEvent'.cycle]_vars

\* two round-trips were in flight together and the older one was answered
\* last: the detections displayed are those of the older frame
C13_Witness ==
    /\ requests = 2 /\ inflight = {} /\ Answered = {1, 2}
    /\ AfterResponse /\ lastEvent.cycle = 1
    /\ detCycle = 1 /\ Len(detections) > 0

(* C14 (of OverlaySpec): what the overlay renders is decided by the          *)
(* processing flag and the product list: while processing, the loading      *)
(* indicator and no rectangle, however many products there are; not         *)
(* processing and no product, nothing; otherwise one rectangle per product, *)
(* in the order of the list.                                                *)
C14_OverlayModes ==
    /\ isProcessing =>
          Overlay.mode = "loading" /\ Overlay.rects = << >>
    /\ (~isProcessing /\ Len(detections) = 0) =>
          Overlay.mode = "null" /\ Overlay.rects = << >>
    /\ (~isProcessing /\ Len(detections) > 0) =>
          /\ Overlay.mode = "boxes"
          /\ Len(Overlay.rects) = Len(detections)
          /\ \A i \in 1..Len(detections) :
                Overlay.rects[i] = RectStyle(detections[i])

\* the overlay rendered with two different products while processing
C14_Witness ==
    /\ isProcessing /\ Len(detections) = 2 /\ detections[1] # detections[2]
    /\ Overlay.mode = "loading"

\* the step is a pause event on an element without intrinsic dimensions
ZeroDimensionPause == lastEvent'.op = "pause" /\ lastEvent'.cap = "zero"

(* C15: a pause event on an element that reports a zero intrinsic width or  *)
(* height sets the 'Video dimensions are invalid' error, replacing any      *)
(* error shown before, and changes nothing else of the application: the     *)
(* processing flag, the detections, the video source and the upload flag    *)
(* keep their values, no request is sent and no round-trip in flight is     *)
(* touched.  The player itself records that it is paused, as on every       *)
(* pause.                                                                   *)
C15_ZeroDimensionsFrame ==
    [][ZeroDimensionPause =>
          /\ error' = <<"Video dimensions are invalid. Ensure the video is loaded properly.">>
          /\ isProcessing' = isProcessing
          /\ detections' = detections
          /\ requests' = requests /\ inflight' = inflight
          /\ UNCHANGED <<videoSrc, hasUploaded, detCycle, minFresh, uploads,
                         objectUrls>>
          /\ isPaused' /\ paused']_vars

\* such a pause while the detections of an earlier cycle are displayed
C15_Witness ==
    /\ lastEvent.op = "pause" /\ lastEvent.cap = "zero"
    /\ error = MsgInvalidDimensions
    /\ Len(detections) > 0 /\ ~isProcessing /\ requests > 0

\* one of the three validation checks of handleFileUpload fails for the file
FailsACheck ==
    [f \in Files |-> \/ ~PassesTypeCheck(f)
                     \/ f.size = 0
                     \/ f.size > 100 * 1024 * 1024]

RejectedByValidation(f) == FailsACheck[f]

(* C16: a selected file that fails the validation (wrong type, empty or     *)
(* oversized) gets an error message and leaves the video source, the        *)
(* detections, the processing flag and the upload flag as they were.  The   *)
(* video source changes only by the upload of a file that passed the        *)
(* validation, and the upload that changes it empties the detections,       *)
(* clears the error and sets the upload flag.                               *)
C16_RejectedBeforeUse ==
    /\ [][\A f \in Files :
            (UploadOf(f) /\ RejectedByValidation(f)) =>
                /\ error' # null /\ error' # undefined /\ error' # << >>
                /\ UNCHANGED <<videoSrc, detections, isProcessing, hasUploaded>>]_vars
    /\ [][videoSrc' # videoSrc =>
            /\ lastEvent'.op = "upload"
            /\ lastEvent'.file \in Files
            /\ ~RejectedByValidation(lastEvent'.file)
            /\ detections' = << >>
            /\ error' = null
            /\ hasUploaded' = TRUE]_vars
    /\ [][\A f \in Files :
            (UploadOf(f) /\ ~RejectedByValidation(f) /\ lastEvent'.cap # "nourl") =>
                videoSrc' # videoSrc]_vars

\* an oversized video rejected while detections are displayed and nothing
\* was uploaded before
C16_Witness ==
    /\ AfterUpload /\ lastEvent.file.size > 100 * 1024 * 1024
    /\ PassesTypeCheck(lastEvent.file)
    /\ error # null /\ Len(detections) > 0
    /\ videoSrc = SAMPLE_VIDEO /\ ~hasUploaded

\* the name ends in one of the five video extensions, whatever the case of
\* its letters
NameHasVideoSuffix(name) ==
    \E ext \in { <<".","m","p","4">>, <<".","w","e","b","m">>, <<".","o","g","g">>,
                 <<".","m","o","v">>, <<".","m","k","v">> } :
        /\ Len(name) >= Len(ext)
        /\ SameIgnoringCase(SubSeq(name, Len(name) - Len(ext) + 1, Len(name)), ext)

\* the MIME type starts with video/
TypeIsVideo(type) ==
    Len(type) >= 6 /\ SubSeq(type, 1, 6) = <<"v","i","d","e","o","/">>

\* the files whose type or name says video
TypeOk == [f \in Files |-> TypeIsVideo(f.type) \/ NameHasVideoSuffix(f.name)]

\* the handler went past the three checks: it made the file the video
\* source, or failed while preparing its URL
PassedValidation ==
    \/ videoSrc' # videoSrc /\ hasUploaded' /\ error' = null
    \/ error' = MsgCritical /\ videoSrc' = videoSrc

(* C17: a selected file passes the validation of handleFileUpload exactly   *)
(* when (its MIME type starts with video/ or its name ends in .mp4, .webm,  *)
(* .ogg, .mov or .mkv in any case) and its size is above 0 and at most      *)
(* 100*1024*1024 bytes, so a file of exactly that size passes; a file that  *)
(* passes becomes the video source when its URL can be created.  The first  *)
(* failing check, in the order type, empty, oversized, decides the message. *)
C17_ValidationRule ==
    [][\A f \in Files :
          UploadOf(f) =>
              LET typeOk == TypeOk[f]
              IN /\ PassedValidation <=>
                       (typeOk /\ f.size > 0 /\ f.size <= 100 * 1024 * 1024)
                 /\ (PassedValidation /\ lastEvent'.cap # "nourl") =>
                       (videoSrc' # videoSrc /\ hasUploaded')
                 /\ ~typeOk => error'[Len(error')] =
                       "\" does not appear to be a supported video format. Please use MP4, WebM, or OGG."
                 /\ (typeOk /\ f.size = 0) => error' =
                       <<"The selected file is empty (0 bytes). Please upload a valid video file.">>
                 /\ (typeOk /\ f.size > 100 * 1024 * 1024) =>
                       error'[1] = "File is too large ("]_vars

\* a file of exactly 104857600 bytes with an upper-case extension and no MIME
\* type became the video source
C17_Witness ==
    /\ AfterUpload /\ lastEvent.file.size = 104857600
    /\ lastEvent.file.type = << >>
    /\ NameHasVideoSuffix(lastEvent.file.name)
    /\ hasUploaded /\ videoSrc # SAMPLE_VIDEO /\ error = null

(* C18: for a well-formed response detectProducts returns a list of the     *)
(* same length and order as the products array; each element has the box    *)
(* [ymin, xmin, ymax, xmax] as named fields, the category's base URL        *)
(* followed by the URL-encoded name as shopping link, and the id, name,     *)
(* category and confidence of the descriptor.                               *)
C18_ProductMapping ==
    (AfterResponse /\ WellFormed(lastEvent.outcome)) =>
        LET items == lastEvent.outcome.items
        IN /\ CallReturned
           /\ Len(detections) = Len(items)
           /\ \A i \in 1..Len(items) :
                 /\ detections[i].id = items[i].id
                 /\ detections[i].name = items[i].name
                 /\ detections[i].category = items[i].category
                 /\ detections[i].confidence = items[i].confidence
                 /\ detections[i].box.ymin = items[i].box[1]
                 /\ detections[i].box.xmin = items[i].box[2]
                 /\ detections[i].box.ymax = items[i].box[3]
                 /\ detections[i].box.xmax = items[i].box[4]
                 /\ detections[i].shoppingLink =
                       TableUrl(items[i].category) \o encodeURIComponent(items[i].name)
                 /\ items[i].name = <<"T","V","&","4","K">> =>
                       detections[i].shoppingLink =
                           <<"https://www.bestbuy.com/site/searchpage.jsp?st=">>
                           \o <<"T","V","%","2","6","4","K">>

(* C19: the processing flag tracks the outstanding work exactly: it is on   *)
(* if and only if at least one detection round-trip is in flight, so the    *)
(* first of two overlapping round-trips to complete leaves it on, and it is *)
(* off once none is in flight.                                              *)
C19_ProcessingTracksInflight == isProcessing <=> inflight # {}

(* C20: detections never cross video sources: a response that puts          *)
(* detections on display answers a round-trip that was issued for the       *)
(* video source shown now, so after an upload replaced the source the list  *)
(* stays empty until a cycle started on the new source completes.           *)
C20_NoCrossSourceDetections ==
    [][(lastEvent'.op = "response" /\ Len(detections') > 0) =>
          \A c \in inflight \ inflight' : c.src = videoSrc']_vars

\* the messages a failed detection round-trip or a cross-origin capture
\* failure puts in the error
CaptureFailureMessages ==
    {<<"Cannot capture frame due to security restrictions (CORS). Please try a local file or a CORS-enabled URL.">>,
     <<"Failed to analyze the video frame.">>}
    \cup {DetectionOf[r].message : r \in {o \in ServiceOutcomes : ~DetectionOf[o].ok}}

(* C21: a failed capture cycle never leaves rectangles on screen next to    *)
(* its error: whenever the error shown is that of a failed detection        *)
(* round-trip or of a cross-origin capture failure the detections list is   *)
(* empty, and the failure of an older cycle never replaces the error-free   *)
(* result of a newer cycle that is displayed.                               *)
C21_NoRectanglesNextToFailure ==
    /\ [](error \in CaptureFailureMessages => detections = << >>)
    /\ [][(/\ lastEvent'.op = "response"
           /\ ~DetectionOf[lastEvent'.outcome].ok
           /\ lastEvent'.cycle < detCycle
           /\ error = null)
          => error' = null]_vars

============================================================================
